---- MODULE Spec2Model ----
(***************************************************************************)
(* Model of TelegramBot (src/bot.py): the join-request lifecycle with      *)
(* timed auto-approval, the welcome on confirmed membership, the per-chat  *)
(* and global statistics and the periodic report/reset jobs.               *)
(*                                                                         *)
(* Scheduling.  Update handlers (handle_chat_join_request,                 *)
(* handle_chat_member_update) are processed one after the other by the     *)
(* application, so a handler never starts while another handler is         *)
(* suspended in an await.  Job-queue callbacks (auto_approve_request,      *)
(* send_hourly_stats, send_daily_stats) run as separate tasks: each may    *)
(* start, or resume, at every await of a handler or of another callback.   *)
(* Every action below is one run of the code between two awaits.  The      *)
(* handler of SIGINT and SIGTERM (bot.py:617-625) is called between two    *)
(* instructions of such a run: ProcessExits ends the process at every      *)
(* point of a run at which the store differs.                              *)
(*                                                                         *)
(* Not modelled: the texts of messages, and the time stamps                *)
(* 'last_activity' of a chat's statistics (no branch reads them).          *)
(* 'request_time' of a pending request is modelled by a logical clock.     *)
(***************************************************************************)
EXTENDS Integers, FiniteSets, Sequences, TLC

\* ---------------------------------------------------------------- bounds
Users == {"u1", "u2"}
Chats == {"c1", "c2"}
Pairs == Users \X Chats

\* Number of join-request events of supported chat types in a behaviour.
MaxRequests == 2
\* Number of departure events in a behaviour.
MaxLeft == 1

\* ---------------------------------------------------- platform vocabulary
\* telegram.constants.ChatType
ChatTypes == {"private", "group", "supergroup", "channel"}
\* SupportedChatTypes with the private chat among them
SupportedChatTypesAll == {"private", "group", "supergroup", "channel"}
\* bot.py:74
SupportedChatTypes == {"group", "supergroup", "channel"}
\* telegram.ChatMember statuses (OWNER is "creator")
Statuses == {"creator", "administrator", "member", "restricted", "left", "kicked"}
\* The membership changes drawn as events: every branch of bot.py:169-179 is taken by
\* one of them at least, and every status those lines name occurs; the owner's
\* departure takes no branch.
StatusChanges ==
    {<<"left", "member">>, <<"kicked", "administrator">>, <<"left", "creator">>,
     <<"member", "left">>, <<"administrator", "kicked">>,
     <<"creator", "left">>}

\* Every change of status an update can carry
AllStatusChanges == {ch \in Statuses \X Statuses : ch[1] # ch[2]}

\* bot.py:169-170
BecameMember(old_status, new_status) ==
    /\ old_status \in {"left", "kicked"}
    /\ new_status \in {"member", "administrator", "creator"}
\* bot.py:178-179
HasLeft(old_status, new_status) ==
    /\ old_status \in {"member", "administrator"}
    /\ new_status \in {"left", "kicked"}

\* Outcomes of the platform calls of send_welcome_message (bot.py:197-230):
\* get_chat_member: the bot may send, may not send, BadRequest/Forbidden, or
\* another error; send_message with Markdown: sent, BadRequest/Forbidden, or
\* another error; the plain send_message: sent or any error.
WelcomeOutcomes ==
    [member : {"can_send", "cannot_send", "denied", "error"},
     rich   : {"ok", "denied", "error"},
     plain  : {"ok", "error"}]

\* What notify_admins (bot.py:232-262) met, when handle_chat_join_request calls it:
\* "off", admin_notification is false in the configuration and it is not called
\* (line 114); "sent", every send succeeded; "send_failed", a send_message raised
\* (line 258); "admins_failed", get_chat_administrators raised (line 261).
NotifyOutcomes == {"off", "sent", "send_failed", "admins_failed"}

\* The administrators the platform lists for a chat (get_chat_administrators,
\* bot.py:419): two people, one of them in both chats, and a bot in each chat.
Admins == {"a1", "a2"}
Bots == {"bot"}
ChatAdmins(chat_id) == IF chat_id = "c1" THEN {"a1", "bot"} ELSE {"a1", "a2", "bot"}

\* Outcomes of one send_message to an administrator (bot.py:424-433): sent,
\* BadRequest/Forbidden, or another error.
SendOutcomes == {"ok", "denied", "error"}

NoSends == [a \in Admins |-> "ok"]

\* Outcomes of the platform calls of one chat's round of send_stats_to_admins
\* (bot.py:404-440).  chat: "admins", the administrators were fetched; "not_admin",
\* a channel in which the bot is no administrator (line 415); "member_denied",
\* get_chat_member of a channel raised BadRequest/Forbidden (line 416);
\* "inaccessible", get_chat or get_chat_administrators raised BadRequest/Forbidden
\* (line 435); "error", one of the three raised another error (line 439).
\* send: the outcome of the send to each administrator, should one be made.
VisitOutcomes ==
    [chat : {"not_admin", "member_denied", "inaccessible", "error"}, send : {NoSends}]
    \cup [chat : {"admins"}, send : [Admins -> SendOutcomes]]

\* ------------------------------------------------------------------ state
VARIABLES
    pending_requests,   \* bot.py:25   dict user_id -> request
    approved_users,     \* bot.py:26   set of user_id
    channel_stats,      \* bot.py:30   dict chat_id -> statistics
    global_stats,       \* bot.py:34   statistics summed over the chats
    tracked_groups,     \* bot.py:31   set of chat_id
    jobs,               \* job queue: the registered approve_<user>_<chat> jobs, in firing order
    approving,          \* auto_approve_request callbacks suspended in approve_chat_join_request
    welcoming,          \* the handle_chat_member_update suspended in send_welcome_message
    reporting,          \* send_hourly_stats / send_daily_stats suspended in send_stats_to_admins
    clock,              \* datetime.now() as a logical clock: join requests recorded so far
    departures,         \* departure events handled so far
    displaced,          \* join requests that overwrote a pending request of their user
    abandoned,          \* request_time of the requests discarded by a failed approval
    stats_file,         \* bot_stats.json: the file save_stats_to_file writes
    approvals,          \* the (user, chat) this process's approve call approved, not welcomed since
    querying,           \* the handle_stats_command suspended in get_chat_administrators
    last                \* the step just taken: operation, inputs, what it found and sent

vars == <<pending_requests, approved_users, channel_stats, global_stats, tracked_groups,
          jobs, approving, welcoming, reporting, clock, departures, displaced, abandoned,
          stats_file, approvals, querying, last>>

\* bot.py:34-42 and 267-277
Counters ==
    {"hourly_requests", "hourly_left", "daily_requests", "daily_left",
     "total_requests", "total_approved", "total_left"}

\* bot.py:70: request.chat.title or "Чат <chat_id>"
ChatTitle(chat_id) == <<"title", chat_id>>

\* bot.py:267-277
NewChannelStats(chat_title) ==
    [title |-> chat_title,
     hourly_requests |-> 0, hourly_left |-> 0,
     daily_requests |-> 0, daily_left |-> 0,
     total_requests |-> 0, total_approved |-> 0, total_left |-> 0]

\* bot.py:34-42
NewGlobalStats ==
    [hourly_requests |-> 0, hourly_left |-> 0,
     daily_requests |-> 0, daily_left |-> 0,
     total_requests |-> 0, total_approved |-> 0, total_left |-> 0]

\* The statistics store as one value: the two dictionaries update_channel_stats writes.
Store(cs, gs) == [channel |-> cs, global |-> gs]

\* dict.pop(key, None) of a dictionary modelled as a function
Pop(d, key) == [k \in DOMAIN d \ {key} |-> d[k]]
\* d[key] = value
Put(d, key, value) == [k \in DOMAIN d \cup {key} |-> IF k = key THEN value ELSE d[k]]

\* The JSON values that are no object, by what Python makes of them: "number" (also
\* null, true, false); "string", a string in which 'last_activity' does not occur;
\* "list", a list without an element 'last_activity'; "string_with_word" and
\* "list_with_word", a string in which 'last_activity' occurs and a list that holds it
NonObjects == {"number", "string", "list", "string_with_word", "list_with_word"}
\* Such a value where a chat's statistics are expected: it has none of the fields
NonObject(kind) == [json |-> kind]
IsObject(value) == "json" \notin DOMAIN value

\* {}: the empty dictionary
EmptyDict == [k \in {} |-> 0]

Idle == [user |-> "-", chat |-> "-"]
\* A report job that is not inside send_stats_to_admins.  Inside: todo, the chats of
\* the copy of tracked_groups (bot.py:404) still to visit; sent, sent_to_admins
\* (line 397); got, the messages delivered to each administrator by this
\* distribution; quiet, whether the window's counters were all zero when the job began;
\* requests and left, the window's figures the job read for its message (lines
\* 296-297, 345-346).
NoReport ==
    [active |-> FALSE, todo |-> {}, sent |-> {}, got |-> [a \in Admins |-> 0],
     quiet |-> FALSE, requests |-> 0, left |-> 0]

\* No handle_stats_command is suspended.  Suspended in the loop of bot.py:535-542:
\* user, who asked; chat, the chat whose administrators are being fetched; seen, the
\* chats the iteration has yielded; tracked, tracked_groups when the iteration began
\* (the set iterator raises RuntimeError when the set's size is no longer that one).
NoQuery == [active |-> FALSE, user |-> "-", chat |-> "-", seen |-> {}, tracked |-> {}]

\* bot_stats.json does not exist
NoFile == [kind |-> "missing"]

\* The step just taken: the operation, the user and chat of its event or job, the rest
\* of its input (chat type, status change, outcomes of its platform calls),
\* request_time of the user's pending request before the step (0: none), and the
\* number of welcome messages it delivered.
Step(op, user, chat, arg, req, sent) ==
    [op |-> op, user |-> user, chat |-> chat, arg |-> arg, req |-> req, sent |-> sent]

\* request_time of the user's pending request, 0 when none is pending
PendingReq(user_id) ==
    IF user_id \in DOMAIN pending_requests THEN pending_requests[user_id].request_time ELSE 0

Init ==
    /\ pending_requests = EmptyDict
    /\ approved_users = {}
    /\ channel_stats = EmptyDict
    /\ global_stats = NewGlobalStats
    /\ tracked_groups = {}
    /\ jobs = <<>>
    /\ approving = [p \in Pairs |-> 0]
    /\ welcoming = Idle
    /\ reporting = [kind \in {"hourly", "daily"} |-> NoReport]
    /\ clock = 0
    /\ departures = 0
    /\ displaced = 0
    /\ abandoned = {}
    /\ stats_file = NoFile
    /\ approvals = {}
    /\ querying = NoQuery
    /\ last = Step("init", "-", "-", <<>>, 0, 0)

\* ------------------------------------------------------------- statistics
\* get_or_create_channel_stats without the test of line 266: the entry is made anew
get_or_create_channel_stats_anew(cs, chat_id, chat_title) ==
    Put(cs, chat_id, NewChannelStats(chat_title))

\* get_or_create_channel_stats (bot.py:264-279), on the dictionary channel_stats
get_or_create_channel_stats(cs, chat_id, chat_title) ==
    IF chat_id \in DOMAIN cs THEN cs ELSE Put(cs, chat_id, NewChannelStats(chat_title))

\* bot.py:284: the chat's entry has no field 'stat_type' and the increment raises:
\* KeyError on an entry loaded from a file that lacks the field, TypeError on an
\* entry that is no dictionary (NonObject)
UpdateRaises(st, chat_id, stat_type) ==
    /\ chat_id \in DOMAIN st.channel
    /\ stat_type \notin DOMAIN st.channel[chat_id]

\* update_channel_stats with lines 288-289 missing: the global counter is left alone
update_channel_stats_chat_only(st, chat_id, stat_type) ==
    IF chat_id \in DOMAIN st.channel /\ ~UpdateRaises(st, chat_id, stat_type)
    THEN Store([st.channel EXCEPT ![chat_id][stat_type] = @ + 1], st.global)
    ELSE st

\* update_channel_stats (bot.py:281-289): the chat's counter and, in step, the global one;
\* nothing for a chat without statistics, and nothing when line 284 raises
update_channel_stats(st, chat_id, stat_type) ==
    IF chat_id \in DOMAIN st.channel /\ ~UpdateRaises(st, chat_id, stat_type)
    THEN Store([st.channel EXCEPT ![chat_id][stat_type] = @ + 1],
               IF stat_type \in DOMAIN st.global
               THEN [st.global EXCEPT ![stat_type] = @ + 1]
               ELSE st.global)
    ELSE st

\* Consecutive calls of update_channel_stats for one chat, up to the first that raises
RECURSIVE UpdateEach(_, _, _)
UpdateEach(st, chat_id, stat_types) ==
    IF stat_types = <<>> \/ UpdateRaises(st, chat_id, Head(stat_types)) THEN st
    ELSE UpdateEach(update_channel_stats(st, chat_id, Head(stat_types)), chat_id,
                    Tail(stat_types))

\* One of the calls raises
EachRaises(st, chat_id, stat_types) ==
    \E i \in 1..Len(stat_types) : UpdateRaises(st, chat_id, stat_types[i])

\* RecordRequest with line 82 missing: the lifetime counter is not incremented
RecordRequestNoTotal(st, chat_id, chat_title) ==
    LET s0 == Store(get_or_create_channel_stats(st.channel, chat_id, chat_title), st.global)
    IN  UpdateEach(s0, chat_id, <<"hourly_requests", "daily_requests">>)

\* bot.py:79-82: the statistics of a recorded join request
RecordRequest(st, chat_id, chat_title) ==
    LET s0 == Store(get_or_create_channel_stats(st.channel, chat_id, chat_title), st.global)
    IN  UpdateEach(s0, chat_id, <<"hourly_requests", "daily_requests", "total_requests">>)

\* bot.py:80-82: KeyError leaves handle_chat_join_request
RequestRaises(st, chat_id) ==
    EachRaises(st, chat_id, <<"hourly_requests", "daily_requests", "total_requests">>)

\* bot.py:144: the statistics of an approval
RecordApproved(st, chat_id) == update_channel_stats(st, chat_id, "total_approved")

\* RecordLeft with line 186 missing: the lifetime counter is not incremented
RecordLeftNoTotal(st, chat_id, chat_title) ==
    LET s0 == Store(get_or_create_channel_stats(st.channel, chat_id, chat_title), st.global)
    IN  UpdateEach(s0, chat_id, <<"hourly_left", "daily_left">>)

\* bot.py:183-186: the statistics of a departure
RecordLeft(st, chat_id, chat_title) ==
    LET s0 == Store(get_or_create_channel_stats(st.channel, chat_id, chat_title), st.global)
    IN  UpdateEach(s0, chat_id, <<"hourly_left", "daily_left", "total_left">>)

\* bot.py:184-186: KeyError leaves handle_chat_member_update
LeftRaises(st, chat_id) ==
    EachRaises(st, chat_id, <<"hourly_left", "daily_left", "total_left">>)

\* d[key] = value, which makes the key when the dictionary has none
Assign(d, key, value) ==
    IF key \in DOMAIN d THEN [d EXCEPT ![key] = value] ELSE Put(d, key, value)

\* ResetWindow zeroing the counters of both windows
ResetBothWindows(st, kind) ==
    Store([c \in DOMAIN st.channel |->
              [st.channel[c] EXCEPT !.hourly_requests = 0, !.hourly_left = 0,
                                    !.daily_requests = 0, !.daily_left = 0]],
          [st.global EXCEPT !.hourly_requests = 0, !.hourly_left = 0,
                            !.daily_requests = 0, !.daily_left = 0])

\* bot.py:334-338 (kind "hourly") and 389-393 (kind "daily"): zero one window's counters
ResetWindow(st, kind) ==
    LET req == IF kind = "hourly" THEN "hourly_requests" ELSE "daily_requests"
        lft == IF kind = "hourly" THEN "hourly_left" ELSE "daily_left"
    IN  Store([c \in DOMAIN st.channel |-> Assign(Assign(st.channel[c], req, 0), lft, 0)],
              Assign(Assign(st.global, req, 0), lft, 0))

\* sum(stats[key] for stats in channel_stats.values())  (bot.py:296-297, 345-349)
RECURSIVE SumOver(_, _, _)
SumOver(cs, chats, key) ==
    IF chats = {} THEN 0
    ELSE LET c == CHOOSE x \in chats : TRUE
         IN  cs[c][key] + SumOver(cs, chats \ {c}, key)

ChannelSum(cs, key) == SumOver(cs, DOMAIN cs, key)

CurrentStore == Store(channel_stats, global_stats)

\* --------------------------------------------------- handle_chat_join_request
\* bot.py:88-97: the entry stored for the requesting user
PendingEntry(chat_id, now) == [chat_id |-> chat_id, request_time |-> now]

\* RunOnce replacing the registered job of the same name instead of adding one
RunOnceReplace(q, user_id, chat_id) ==
    LET Other(j) == j # <<user_id, chat_id>>
    IN  Append(SelectSeq(q, Other), <<user_id, chat_id>>)

\* bot.py:100-108: job_queue.run_once registers one more job approve_<user>_<chat>, due
\* after the configured delay: the delay is the same for every request, so the jobs come
\* due in the order of their registration.  (run() always builds the application with a
\* JobQueue, bot.py:598-603, so the branch of line 110 is not taken.)
RunOnce(q, user_id, chat_id) == Append(q, <<user_id, chat_id>>)

\* The registered, not yet fired approval jobs of one (user, chat)
Registered(q, user_id, chat_id) ==
    Cardinality({i \in 1..Len(q) : q[i] = <<user_id, chat_id>>})

\* NotifyRaises without the handler of line 261: a failed get_chat_administrators
\* leaves notify_admins
NotifyRaisesOnLookup(notify) == notify = "admins_failed"

\* notify_admins (bot.py:232-262): whether an exception leaves it.  The handler of
\* line 258 catches every exception of a send and the one of line 261 every other.
NotifyRaises(notify) == FALSE

\* No update handler is suspended in an await: the application processes the updates
\* one after the other
NoHandlerSuspended == welcoming = Idle /\ ~querying.active

\* bot.py:60-115.  The await of notify_admins (line 115) comes after the last write of
\* the handler and notify_admins writes no state, so the handler is one step.  The step
\* record holds the chat type, what notify_admins met ("none": it was not reached), and
\* how the handler ended: "returned", or "raised" by the increments of lines 80-82
\* or by notify_admins.
handle_chat_join_request(user_id, chat_id, chat_type, notify) ==
    /\ UNCHANGED <<stats_file, approvals, querying>>
    /\ NoHandlerSuspended
    /\ IF chat_type \notin SupportedChatTypes
       THEN /\ last' = Step("join", user_id, chat_id, <<chat_type, "none", "returned">>,
                            PendingReq(user_id), 0)
            /\ UNCHANGED <<pending_requests, approved_users, channel_stats, global_stats,
                           tracked_groups, jobs, approving, welcoming, reporting, clock,
                           departures, displaced, abandoned>>
       ELSE /\ clock < MaxRequests
            /\ clock' = clock + 1
            /\ LET st == RecordRequest(CurrentStore, chat_id, ChatTitle(chat_id))
               IN  /\ channel_stats' = st.channel
                   /\ global_stats' = st.global
            /\ IF RequestRaises(CurrentStore, chat_id)
               THEN /\ last' = Step("join", user_id, chat_id, <<chat_type, "none", "raised">>,
                                    PendingReq(user_id), 0)
                    /\ UNCHANGED <<tracked_groups, pending_requests, jobs, displaced>>
               ELSE /\ tracked_groups' = tracked_groups \cup {chat_id}
                    /\ pending_requests' =
                           Put(pending_requests, user_id, PendingEntry(chat_id, clock + 1))
                    /\ jobs' = RunOnce(jobs, user_id, chat_id)
                    /\ displaced' = IF user_id \in DOMAIN pending_requests
                                    THEN displaced + 1 ELSE displaced
                    /\ last' = Step("join", user_id, chat_id,
                                    <<chat_type, notify,
                                      IF NotifyRaises(notify) THEN "raised" ELSE "returned">>,
                                    PendingReq(user_id), 0)
            /\ UNCHANGED <<approved_users, approving, welcoming, reporting, departures,
                           abandoned>>

\* ------------------------------------------------------- auto_approve_request
\* AutoApproveFire without the check of line 124: the approve call is made always
AutoApproveFireNoCheck(user_id, chat_id) ==
    /\ UNCHANGED <<stats_file, approvals, querying>>
    /\ jobs # <<>>
    /\ Head(jobs) = <<user_id, chat_id>>
    /\ jobs' = Tail(jobs)
    /\ approving' = [approving EXCEPT ![<<user_id, chat_id>>] = @ + 1]
    /\ last' = Step("approve_fire", user_id, chat_id, <<>>, PendingReq(user_id), 0)
    /\ UNCHANGED <<pending_requests, approved_users, channel_stats, global_stats,
                   tracked_groups, welcoming, reporting, clock, departures, displaced,
                   abandoned>>

\* bot.py:117-130: the job fires; it returns at once when the user has no pending
\* request, and is suspended in approve_chat_join_request otherwise
AutoApproveFire(user_id, chat_id) ==
    /\ UNCHANGED <<stats_file, approvals, querying>>
    /\ jobs # <<>>
    /\ Head(jobs) = <<user_id, chat_id>>
    /\ jobs' = Tail(jobs)
    /\ IF user_id \notin DOMAIN pending_requests
       THEN UNCHANGED approving
       ELSE approving' = [approving EXCEPT ![<<user_id, chat_id>>] = @ + 1]
    /\ last' = Step("approve_fire", user_id, chat_id, <<>>, PendingReq(user_id), 0)
    /\ UNCHANGED <<pending_requests, approved_users, channel_stats, global_stats,
                   tracked_groups, welcoming, reporting, clock, departures, displaced,
                   abandoned>>

\* ApproveSucceeded with line 144 moved before line 139: the approval is counted
\* before the entry is popped, so also when the pop raises
ApproveSucceededCountFirst(user_id, chat_id) ==
    /\ approved_users' = approved_users \cup {user_id}
    /\ LET st == update_channel_stats(CurrentStore, chat_id, "total_approved")
       IN  /\ channel_stats' = st.channel
           /\ global_stats' = st.global
    /\ pending_requests' = Pop(pending_requests, user_id)
    /\ UNCHANGED abandoned

\* bot.py:135-144: approve_chat_join_request returned.  pop(user_id) of line 139 raises
\* KeyError when the entry is gone; the handler of line 148 catches it, after line 136
\* and before line 144.
ApproveSucceeded(user_id, chat_id) ==
    /\ approved_users' = approved_users \cup {user_id}
    /\ IF user_id \in DOMAIN pending_requests
       THEN /\ pending_requests' = Pop(pending_requests, user_id)
            /\ LET st == RecordApproved(CurrentStore, chat_id)
               IN  /\ channel_stats' = st.channel
                   /\ global_stats' = st.global
       ELSE UNCHANGED <<pending_requests, channel_stats, global_stats>>
    /\ UNCHANGED abandoned

\* ApproveFailed with line 151 missing: the entry stays pending
ApproveFailedKeepsEntry(user_id, chat_id) ==
    UNCHANGED <<pending_requests, abandoned, approved_users, channel_stats, global_stats>>

\* bot.py:148-151: approve_chat_join_request raised
ApproveFailed(user_id, chat_id) ==
    /\ pending_requests' = Pop(pending_requests, user_id)
    /\ abandoned' = abandoned \cup ({PendingReq(user_id)} \ {0})
    /\ UNCHANGED <<approved_users, channel_stats, global_stats>>

AutoApproveReturn(user_id, chat_id, ok) ==
    /\ UNCHANGED <<stats_file, querying>>
    /\ approvals' = IF ok THEN approvals \cup {<<user_id, chat_id>>} ELSE approvals
    /\ approving[<<user_id, chat_id>>] > 0
    /\ approving' = [approving EXCEPT ![<<user_id, chat_id>>] = @ - 1]
    /\ IF ok THEN ApproveSucceeded(user_id, chat_id) ELSE ApproveFailed(user_id, chat_id)
    /\ last' = Step("approve_return", user_id, chat_id,
                    <<IF ok THEN "ok" ELSE "error">>, PendingReq(user_id), 0)
    /\ UNCHANGED <<tracked_groups, jobs, welcoming, reporting, clock, departures, displaced>>

\* -------------------------------------------------- handle_chat_member_update
\* WelcomeDue without the test of line 173: every new member is welcomed
WelcomeDueAnyUser(approved, user_id) == TRUE

\* bot.py:173: the welcome is for a user this bot approved
WelcomeDue(approved, user_id) == user_id \in approved

\* bot.py:153-188 up to the await of send_welcome_message (line 174, first await at 198).
\* The chat's type (line 162) is read for the log of line 188 and for the text of the
\* welcome only; no branch of the handler tests it.  The step record holds the status
\* change, the chat type, and how the handler ended: "returned", or "raised" by the
\* increments of lines 184-186.
handle_chat_member_update(user_id, chat_id, chat_type, old_status, new_status) ==
    /\ UNCHANGED <<stats_file, approvals, querying>>
    /\ NoHandlerSuspended
    /\ tracked_groups' = tracked_groups \cup {chat_id}
    /\ IF BecameMember(old_status, new_status)
       THEN /\ IF WelcomeDue(approved_users, user_id)
               THEN welcoming' = [user |-> user_id, chat |-> chat_id]
               ELSE UNCHANGED welcoming
            /\ UNCHANGED <<channel_stats, global_stats, departures>>
       ELSE IF HasLeft(old_status, new_status)
       THEN /\ departures < MaxLeft
            /\ departures' = departures + 1
            /\ LET st == RecordLeft(CurrentStore, chat_id, ChatTitle(chat_id))
               IN  /\ channel_stats' = st.channel
                   /\ global_stats' = st.global
            /\ UNCHANGED welcoming
       ELSE UNCHANGED <<channel_stats, global_stats, departures, welcoming>>
    /\ last' = Step("member_update", user_id, chat_id,
                    <<old_status, new_status, chat_type,
                      IF HasLeft(old_status, new_status) /\ LeftRaises(CurrentStore, chat_id)
                      THEN "raised" ELSE "returned">>,
                    PendingReq(user_id), 0)
    /\ UNCHANGED <<pending_requests, approved_users, jobs, approving, reporting, clock,
                   displaced, abandoned>>

\* send_welcome_message (bot.py:190-230): the number of welcome messages delivered
WelcomeSent(out) ==
    IF out.member # "can_send" THEN 0
    ELSE IF out.rich = "ok" THEN 1
    ELSE IF out.rich = "denied" /\ out.plain = "ok" THEN 1
    ELSE 0

\* bot.py:222-227: the plain send_message is made in the handler of BadRequest and
\* Forbidden of the formatted one; no other error of the formatted send is caught
WelcomePlainTried(out) == out.member = "can_send" /\ out.rich = "denied"

\* send_welcome_message (bot.py:190-230): whether an exception leaves it.  Lines 202
\* and 222 catch BadRequest and Forbidden only; line 229 catches everything.
WelcomeRaises(out) ==
    \/ out.member = "error"
    \/ out.member = "can_send" /\ out.rich = "error"

\* bot.py:174-175: send_welcome_message returns and the user is removed from
\* approved_users, or it raises and line 175 is not reached.  send_welcome_message
\* writes no state, so its awaits are one suspension.
WelcomeReturn(out) ==
    /\ UNCHANGED <<stats_file, querying>>
    /\ approvals' = IF WelcomeSent(out) > 0
                    THEN approvals \ {<<welcoming.user, welcoming.chat>>}
                    ELSE approvals
    /\ welcoming # Idle
    /\ welcoming' = Idle
    /\ approved_users' = IF WelcomeRaises(out) THEN approved_users
                         ELSE approved_users \ {welcoming.user}
    /\ last' = Step("welcome_return", welcoming.user, welcoming.chat,
                    <<out.member, out.rich, out.plain>>, PendingReq(welcoming.user),
                    WelcomeSent(out))
    /\ UNCHANGED <<pending_requests, channel_stats, global_stats, tracked_groups, jobs,
                   approving, reporting, clock, departures, displaced, abandoned>>

\* ------------------------------------------- send_hourly_stats, send_daily_stats
\* The window's request and departure counters (bot.py:296-297, 345-346)
WindowRequests(kind) == IF kind = "hourly" THEN "hourly_requests" ELSE "daily_requests"
WindowLeft(kind) == IF kind = "hourly" THEN "hourly_left" ELSE "daily_left"

\* The fields of every chat's statistics the job reads to form its message
\* (bot.py:296-297; 345-349)
FieldsRead(kind) ==
    IF kind = "hourly" THEN {"hourly_requests", "hourly_left"}
    ELSE {"daily_requests", "daily_left", "total_approved", "total_requests", "total_left"}

\* A chat's statistics lack a field the job reads: KeyError, or TypeError on an entry
\* that is no dictionary, leaves the job
ReportRaises(cs, kind) ==
    \E c \in DOMAIN cs : ~(FieldsRead(kind) \subseteq DOMAIN cs[c])

\* The window's request and departure counters, summed over the chats, are both zero
WindowQuiet(cs, kind) ==
    /\ ChannelSum(cs, WindowRequests(kind)) = 0
    /\ ChannelSum(cs, WindowLeft(kind)) = 0

\* NothingToReport with lines 299-300 missing: the hourly job always goes on
NothingToReportNever(kind) == FALSE

\* bot.py:296-300: the hourly job returns at once when the hour saw no activity;
\* send_daily_stats (340-386) has no such test
NothingToReport(kind) ==
    /\ kind = "hourly"
    /\ WindowQuiet(channel_stats, kind)

\* bot.py:293-331 and 340-386: the repeating job starts (the job queue runs one instance
\* of a repeating job at a time), forms its message and enters send_stats_to_admins,
\* which copies tracked_groups (line 404) and returns at once when it is empty (line 400)
ReportStart(kind) ==
    /\ UNCHANGED <<stats_file, approvals, querying>>
    /\ ~reporting[kind].active
    /\ IF ReportRaises(channel_stats, kind)
       THEN /\ last' = Step("report_raised", "-", kind, <<"raised">>, 0, 0)
            /\ UNCHANGED <<channel_stats, global_stats, reporting>>
       ELSE IF NothingToReport(kind)
       THEN /\ last' = Step("report_none", "-", kind, <<>>, 0, 0)
            /\ UNCHANGED <<channel_stats, global_stats, reporting>>
       ELSE IF tracked_groups = {}
       THEN /\ LET st == ResetWindow(CurrentStore, kind)
               IN  /\ channel_stats' = st.channel
                   /\ global_stats' = st.global
            /\ last' = Step("report_reset", "-", kind, <<>>, 0, 0)
            /\ UNCHANGED reporting
       ELSE /\ reporting' = [reporting EXCEPT ![kind] =
                                [active |-> TRUE, todo |-> tracked_groups, sent |-> {},
                                 got |-> [a \in Admins |-> 0],
                                 quiet |-> WindowQuiet(channel_stats, kind),
                                 requests |-> ChannelSum(channel_stats, WindowRequests(kind)),
                                 left |-> ChannelSum(channel_stats, WindowLeft(kind))]]
            /\ last' = Step("report_start", "-", kind, <<>>, 0, 0)
            /\ UNCHANGED <<channel_stats, global_stats>>
    /\ UNCHANGED <<pending_requests, approved_users, tracked_groups, jobs, approving,
                   welcoming, clock, departures, displaced, abandoned>>

\* SendTargets without the test of sent_to_admins (bot.py:422)
SendTargetsNoDedup(chat_id, sent) == {a \in ChatAdmins(chat_id) : a \notin Bots}

\* bot.py:421-422: the administrators of the chat that are sent the report: not a bot,
\* and not yet in sent_to_admins
SendTargets(chat_id, sent) == {a \in ChatAdmins(chat_id) : a \notin Bots /\ a \notin sent}

\* SendsMade with the first failed send ending the loop over the administrators
SendsMadeStopAtFailure(targets, send) ==
    IF \E a \in targets : send[a] # "ok" THEN {} ELSE targets

\* bot.py:423-433: every exception of a send is caught inside the loop over the
\* administrators, so a send is made to every target
SendsMade(targets, send) == targets

\* ChatDiscarded with the refusal of get_chat_member (bot.py:416) discarding too
ChatDiscardedAnyRefusal(outcome) == outcome.chat \in {"inaccessible", "member_denied"}

\* bot.py:435-438: BadRequest/Forbidden of get_chat or get_chat_administrators
\* discards the chat; the refusal of get_chat_member is caught at line 416
ChatDiscarded(outcome) == outcome.chat = "inaccessible"

\* bot.py:404-440: one chat's round of the loop of send_stats_to_admins.  The round
\* reads and writes no state of the bot but the discard of line 438, so it is one
\* step.  After the last await of the last round the loop ends, send_stats_to_admins
\* returns and the job zeroes its window (333-338, 388-393) without another await:
\* the last round, the reset and the end of the job are one step.  The step record
\* holds the administrators a send was made to, those it was delivered to, whether
\* the job "goes_on" or has "returned", and the number of messages delivered.
ReportVisit(kind, chat_id, outcome) ==
    /\ UNCHANGED <<stats_file, approvals, querying>>
    /\ reporting[kind].active
    /\ chat_id \in reporting[kind].todo
    /\ LET r == reporting[kind]
           made == IF outcome.chat = "admins"
                   THEN SendsMade(SendTargets(chat_id, r.sent), outcome.send)
                   ELSE {}
           delivered == {a \in made : outcome.send[a] = "ok"}
           is_last == r.todo = {chat_id}
           st == IF is_last THEN ResetWindow(CurrentStore, kind) ELSE CurrentStore
       IN  /\ reporting' = [reporting EXCEPT ![kind] =
                               IF is_last THEN NoReport
                               ELSE [r EXCEPT !.todo = @ \ {chat_id},
                                              !.sent = @ \cup delivered,
                                              !.got = [a \in Admins |->
                                                         IF a \in delivered THEN @[a] + 1
                                                         ELSE @[a]]]]
           /\ channel_stats' = st.channel
           /\ global_stats' = st.global
           /\ last' = Step("report_visit", "-", chat_id,
                           <<kind, outcome.chat, made, delivered,
                             IF is_last THEN "returned" ELSE "goes_on">>,
                           0, Cardinality(delivered))
    /\ tracked_groups' = IF ChatDiscarded(outcome) THEN tracked_groups \ {chat_id}
                         ELSE tracked_groups
    /\ UNCHANGED <<pending_requests, approved_users, jobs, approving, welcoming, clock,
                   departures, displaced, abandoned>>

\* --------------------------------------------------------- handle_stats_command
\* Who sends the command /stats: the two administrators, the bot that is listed as an
\* administrator of both chats, and a user who administers no chat
StatsUsers == Admins \cup Bots \cup {"u1"}

\* Outcomes of get_chat_administrators in the loop of bot.py:535-542: the list, or any
\* exception (line 541)
LookupOutcomes == {"listed", "error"}

\* bot.py:537-539: the lookup returned the list and the user is in it and is no bot
IsAdminOf(user_id, chat_id, outcome) ==
    outcome = "listed" /\ user_id \in ChatAdmins(chat_id) /\ user_id \notin Bots

\* bot.py:549-591: what the handler replies to an administrator: the note that the
\* statistics are empty (line 552), or the report with the lifetime counters (556-588);
\* the sums of lines 556-558 raise when a chat's statistics lack a field
StatsAnswer(cs) ==
    IF DOMAIN cs = {} THEN "empty"
    ELSE IF \E c \in DOMAIN cs :
                ~({"total_requests", "total_approved", "total_left"} \subseteq DOMAIN cs[c])
    THEN "raised"
    ELSE "report"

\* bot.py:526-537: the command arrives.  Without a message the handler returns (line
\* 528); with no tracked chat the loop has no round and the denial is sent (544-546);
\* else the iteration over tracked_groups yields a first chat and the handler is
\* suspended in get_chat_administrators.  The step record holds how the handler
\* ended, if it did.
StatsCommand(user_id, has_message, first) ==
    /\ NoHandlerSuspended
    /\ IF ~has_message
       THEN /\ last' = Step("stats_end", user_id, "-", <<"no_message">>, 0, 0)
            /\ UNCHANGED querying
       ELSE IF tracked_groups = {}
       THEN /\ last' = Step("stats_end", user_id, "-", <<"denied">>, 0, 0)
            /\ UNCHANGED querying
       ELSE /\ first \in tracked_groups
            /\ querying' = [active |-> TRUE, user |-> user_id, chat |-> first,
                            seen |-> {first}, tracked |-> tracked_groups]
            /\ last' = Step("stats_lookup", user_id, first, <<>>, 0, 0)
    /\ UNCHANGED <<pending_requests, approved_users, channel_stats, global_stats,
                   tracked_groups, jobs, approving, welcoming, reporting, clock, departures,
                   displaced, abandoned, stats_file, approvals>>

\* bot.py:537-591: get_chat_administrators returned or raised.  When the user is found
\* the loop is left and the answer sent.  Otherwise the iteration goes on: the set
\* iterator raises RuntimeError when tracked_groups has no longer the size it had as
\* the iteration began (a report job discarded a chat meanwhile, line 438), and the
\* exception leaves the handler, which replies nothing; when every chat was yielded
\* the denial is sent; else the next chat is looked up.  The replies write no state
\* and are part of the step.
StatsLookupReturns(outcome, next) ==
    /\ querying.active
    /\ IF IsAdminOf(querying.user, querying.chat, outcome)
       THEN /\ querying' = NoQuery
            /\ last' = Step("stats_end", querying.user, querying.chat,
                            <<StatsAnswer(channel_stats), outcome>>, 0, 0)
       ELSE IF Cardinality(tracked_groups) # Cardinality(querying.tracked)
       THEN /\ querying' = NoQuery
            /\ last' = Step("stats_end", querying.user, querying.chat,
                            <<"RuntimeError", outcome>>, 0, 0)
       ELSE IF querying.tracked \ querying.seen = {}
       THEN /\ querying' = NoQuery
            /\ last' = Step("stats_end", querying.user, querying.chat,
                            <<"denied", outcome>>, 0, 0)
       ELSE /\ next \in querying.tracked \ querying.seen
            /\ querying' = [querying EXCEPT !.chat = next, !.seen = @ \cup {next}]
            /\ last' = Step("stats_lookup", querying.user, next, <<outcome>>, 0, 0)
    /\ UNCHANGED <<pending_requests, approved_users, channel_stats, global_stats,
                   tracked_groups, jobs, approving, welcoming, reporting, clock, departures,
                   displaced, abandoned, stats_file, approvals>>

\* ------------------------------- save_stats_to_file, load_stats_from_file
\* The orders in which the elements of a set can be listed: list(set), and the order
\* of a dictionary's items, which the model's functions do not keep
RECURSIVE Orders(_)
Orders(S) ==
    IF S = {} THEN {<<>>}
    ELSE UNION {{<<x>> \o q : q \in Orders(S \ {x})} : x \in S}

Range(q) == {q[i] : i \in 1..Len(q)}

\* bot.py:453-457: the object 'channel_stats' of the file, its items in the order of
\* the dictionary; ok: the item's value is an object
RECURSIVE ChannelItems(_, _)
ChannelItems(cs, order) ==
    IF order = <<>> THEN <<>>
    ELSE <<[chat |-> Head(order), ok |-> IsObject(cs[Head(order)]),
            stats |-> cs[Head(order)]]>>
             \o ChannelItems(cs, Tail(order))

\* The values 'tracked_groups' can have in the file, by what set() of bot.py:474
\* makes of them: "list", a list of strings or numbers; "string"; "object"; "number"
\* (also null, true, false); "nested", a list that holds a list or an object
TrackedKinds == {"list", "string", "object", "number", "nested"}

\* Such a value.  items: what iterating it yields, in order: the elements of a list,
\* the characters of a string, the keys of an object; nothing for the other kinds
TrackedValue(kind, items) == [json |-> kind, items |-> items]

\* bot.py:474: set() raises TypeError on a value that cannot be iterated and on a list
\* with an element that cannot be hashed
SetRaises(value) == value.json \in {"number", "nested"}

\* bot.py:474: set() of a list, a string or an object: its elements, its characters,
\* its keys
SetOf(value) == Range(value.items)

\* bot.py:445-460: the JSON document save_stats_to_file writes: 'tracked_groups' is the
\* list of line 448, and 'channel_stats' is an object (channels_ok), as it is in every
\* document this code writes.
FileImage(cs, gs, tg, chat_order, group_order) ==
    [kind |-> "json",
     global_stats |-> gs,
     tracked_groups |-> TrackedValue("list", group_order),
     channels_ok |-> TRUE, channel_stats |-> ChannelItems(cs, chat_order)]

\* Outcomes of save_stats_to_file (bot.py:444-464): written; open() raised and the file
\* is as it was; or the dump raised after open() had truncated the file
SaveOutcomes == {"saved", "open_failed", "write_failed"}

\* The file is not JSON (json.load raises, bot.py:470) or its document is no object
\* (.get raises, bot.py:473)
BrokenFile == [kind |-> "malformed"]

\* bot.py:453-454: stats.copy() raises AttributeError on an entry that is a string,
\* before the file is opened
CopyRaises(cs) == \E c \in DOMAIN cs : cs[c] = NonObject("string")

\* What save_stats_to_file met when it ran on the store 'st': the failed copy, or the
\* outcome of the write
SaveResultOf(st, outcome) == IF CopyRaises(st.channel) THEN "copy_failed" ELSE outcome

\* bot.py:444-464: the file after save_stats_to_file ran on the store 'st'
SavedFileOf(st, outcome, chat_order, group_order) ==
    IF CopyRaises(st.channel) THEN stats_file
    ELSE IF outcome = "saved"
    THEN FileImage(st.channel, st.global, st.tracked, chat_order, group_order)
    ELSE IF outcome = "write_failed" THEN BrokenFile
    ELSE stats_file

\* The store the bot holds: the three values save_stats_to_file writes
WholeStore == [channel |-> channel_stats, global |-> global_stats, tracked |-> tracked_groups]

\* What save_stats_to_file met, run between two steps of the bot
SaveResult(outcome) == SaveResultOf(WholeStore, outcome)

\* bot.py:444-464: the file after save_stats_to_file, run between two steps of the bot
SavedFile(outcome, chat_order, group_order) ==
    SavedFileOf(WholeStore, outcome, chat_order, group_order)

\* save_stats_to_file (bot.py:442-464), called by the job periodic_save_stats (line 493)
\* and by the signal handler (line 619); it has no await
save_stats_to_file(outcome, chat_order, group_order) ==
    /\ stats_file' = SavedFile(outcome, chat_order, group_order)
    /\ last' = Step("save", "-", "-", <<SaveResult(outcome)>>, 0, 0)
    /\ UNCHANGED <<pending_requests, approved_users, channel_stats, global_stats,
                   tracked_groups, jobs, approving, welcoming, reporting, clock, departures,
                   displaced, abandoned, approvals, querying>>

\* The values of the kinds 'tracked' that can stand in the place of the value of
\* 'tracked_groups': the object whose keys are the elements it had, and the value
\* without items of every other kind (the empty string, a number, a list that holds
\* only a list)
TrackedDamage(value, tracked) ==
    {TrackedValue(k, IF k = "object" THEN value.items ELSE <<>>) : k \in tracked}

\* What the file can become outside the program: deleted; no longer a JSON object; or
\* a JSON object in which the value of 'tracked_groups' is one of the kinds 'tracked',
\* the value of 'channel_stats' is no object, or the value of one chat is no object
\* but a value of one of 'kinds'
DamagedFiles(file, kinds, tracked) ==
    IF file.kind # "json" THEN {}
    ELSE ({NoFile, BrokenFile, [file EXCEPT !.channels_ok = FALSE]}
          \cup {[file EXCEPT !.tracked_groups = v] :
                   v \in TrackedDamage(file.tracked_groups, tracked)}
          \cup {[file EXCEPT !.channel_stats[i] =
                               [chat |-> @.chat, ok |-> FALSE, stats |-> NonObject(kind)]] :
                   i \in 1..Len(file.channel_stats), kind \in kinds})
         \ {file}

FileDamaged(file, kinds, tracked) ==
    /\ file \in DamagedFiles(stats_file, kinds, tracked)
    /\ stats_file' = file
    /\ last' = Step("damage", "-", "-", <<>>, 0, 0)
    /\ UNCHANGED <<pending_requests, approved_users, channel_stats, global_stats,
                   tracked_groups, jobs, approving, welcoming, reporting, clock, departures,
                   displaced, abandoned, approvals, querying>>

\* Counter fields a statistics file may lack: one the join handler and the daily job
\* use, and one the departure branch uses
LostKeys == {"daily_requests", "total_left"}

\* The JSON files that are 'file' without one counter field of 'global_stats' or of one
\* chat's object: files of the shape load_stats_from_file reads with .get and
\* assigns as they are (bot.py:473, 477-483)
PartialFiles(file) ==
    IF file.kind # "json" THEN {}
    ELSE ({[file EXCEPT !.global_stats = Pop(@, k)] : k \in LostKeys}
          \cup {[file EXCEPT !.channel_stats[i].stats = Pop(@, k)] :
                   i \in {j \in 1..Len(file.channel_stats) : file.channel_stats[j].ok},
                   k \in LostKeys})
         \ {file}

FieldsLost(file) ==
    /\ file \in PartialFiles(stats_file)
    /\ stats_file' = file
    /\ last' = Step("fields_lost", "-", "-", <<>>, 0, 0)
    /\ UNCHANGED <<pending_requests, approved_users, channel_stats, global_stats,
                   tracked_groups, jobs, approving, welcoming, reporting, clock, departures,
                   displaced, abandoned, approvals, querying>>

\* The store of a bot under construction, before load_stats_from_file (bot.py:29-42)
FreshStore == [channel |-> EmptyDict, global |-> NewGlobalStats, tracked |-> {}]

\* bot.py:478: on a value that is no object, the test "'last_activity' in stats"
\* raises TypeError when 'in' is not defined for the value; when the test is True (a
\* string or a list that holds the word) the index stats['last_activity'] raises
\* TypeError; a string or list without the word passes line 478
WordTestRaises == {"number", "string_with_word", "list_with_word"}

\* bot.py:478 raises on this item of 'channel_stats'
ItemRaises(item) ==
    /\ ~item.ok
    /\ item.stats.json \in WordTestRaises

\* bot.py:477-483: the loop over the items of 'channel_stats'.  The loop ends at the
\* item on which line 478 raises; every other value, an object or not, is assigned as
\* the chat's entry (line 483).
RECURSIVE LoadChannels(_, _)
LoadChannels(cs, items) ==
    IF items = <<>> THEN cs
    ELSE IF ItemRaises(Head(items)) THEN cs
    ELSE LoadChannels(Put(cs, Head(items).chat, Head(items).stats), Tail(items))

\* LoadStats with line 474 missing: tracked_groups is not loaded
LoadStatsNoTracked(file, self) ==
    IF file.kind # "json" THEN self
    ELSE IF SetRaises(file.tracked_groups) \/ ~file.channels_ok
    THEN [self EXCEPT !.global = file.global_stats]
    ELSE [self EXCEPT !.global = file.global_stats,
                      !.channel = LoadChannels(self.channel, file.channel_stats)]

\* load_stats_from_file (bot.py:466-489) on the store 'self'.  Whatever is raised is
\* caught at line 486 or 488, and what was assigned before stays assigned: open() or
\* json.load raises, or the document is no object and .get raises (469-473);
\* global_stats is assigned (473); set() raises, or tracked_groups is assigned the
\* set of the value's elements, characters or keys (474); items() raises on a value
\* that is no object (477), or the chats are assigned one by one (477-483).
LoadStats(file, self) ==
    IF file.kind # "json" THEN self
    ELSE LET s1 == [self EXCEPT !.global = file.global_stats]
         IN  IF SetRaises(file.tracked_groups) THEN s1
             ELSE LET s2 == [s1 EXCEPT !.tracked = SetOf(file.tracked_groups)]
                  IN  IF ~file.channels_ok THEN s2
                      ELSE [s2 EXCEPT !.channel = LoadChannels(self.channel, file.channel_stats)]

\* load_stats_from_file raises, and catches, an exception on this file
LoadRaises(file) ==
    \/ file.kind # "json"
    \/ SetRaises(file.tracked_groups)
    \/ ~file.channels_ok
    \/ \E i \in 1..Len(file.channel_stats) : ItemRaises(file.channel_stats[i])

\* bot.py:23-45: the state of a bot constructed in a new process: the dictionaries
\* and sets are empty, the job queue and every callback of the old process are gone,
\* and load_stats_from_file reads the file
Rebuilt(file) ==
    /\ LET st == LoadStats(file, FreshStore)
       IN  /\ channel_stats' = st.channel
           /\ global_stats' = st.global
           /\ tracked_groups' = st.tracked
    /\ pending_requests' = EmptyDict
    /\ approved_users' = {}
    /\ jobs' = <<>>
    /\ approving' = [p \in Pairs |-> 0]
    /\ welcoming' = Idle
    /\ reporting' = [kind \in {"hourly", "daily"} |-> NoReport]
    /\ querying' = NoQuery
    /\ approvals' = {}

\* A bot is constructed (bot.py:23-45) in a new process.  The logical clock and the
\* counts of events go on.
Constructed(file) ==
    /\ Rebuilt(file)
    /\ UNCHANGED <<clock, departures, displaced, abandoned>>

\* The process is killed and started again
Restart ==
    /\ Constructed(stats_file)
    /\ last' = Step("restart", "-", "-", <<>>, 0, 0)
    /\ UNCHANGED stats_file

\* The ways run() ends (bot.py:593-713): "signal", SIGINT or SIGTERM runs
\* signal_handler (617-622); "loop_returned", application.run_polling or run_webhook
\* returns and so do run_polling (line 684), run and main; "startup_failed", the
\* retries are used up or another exception is raised again (698, 709, 713, 669);
\* "no_webhook_url", run_webhook returns at line 648.
ExitPaths == {"signal", "loop_returned", "startup_failed", "no_webhook_url"}

\* bot.py:619: save_stats_to_file is called in signal_handler, and on no other path
\* out of run()
SavesAtExit(path) == path = "signal"

\* A point of the main thread: the store as it is there, and the event whose handler
\* is running ("none": no run is under way, or the run writes no counter of events)
Point(st, tracked, event) ==
    [store |-> [channel |-> st.channel, global |-> st.global, tracked |-> tracked],
     event |-> event]

\* bot.py:284-285: the store inside update_channel_stats, after the chat's counter is
\* incremented and before the global one is (288-289)
ChatCounted(st, chat_id, stat_type) ==
    IF chat_id \in DOMAIN st.channel /\ ~UpdateRaises(st, chat_id, stat_type)
    THEN Store([st.channel EXCEPT ![chat_id][stat_type] = @ + 1], st.global)
    ELSE st

\* bot.py:281-289, called several times in a row: the stores between the writes: after
\* the chat's counter is incremented (284) and before the global one is (289), and
\* after each call, up to the call that raises
RECURSIVE UpdatePoints(_, _, _)
UpdatePoints(st, chat_id, stat_types) ==
    IF stat_types = <<>> \/ UpdateRaises(st, chat_id, Head(stat_types)) THEN {st}
    ELSE {st, ChatCounted(st, chat_id, Head(stat_types))}
         \cup UpdatePoints(update_channel_stats(st, chat_id, Head(stat_types)), chat_id,
                           Tail(stat_types))

\* bot.py:79-85: the points of a run of handle_chat_join_request for a chat of a
\* supported type, from the creation of the chat's statistics (79) through the
\* increments (80-82) to tracked_groups.add (85), after which the run writes nothing
\* that is saved
JoinPoints(chat_id) ==
    LET s0 == Store(get_or_create_channel_stats(channel_stats, chat_id, ChatTitle(chat_id)),
                    global_stats)
    IN  {Point(s, tracked_groups, "join") :
            s \in UpdatePoints(s0, chat_id,
                               <<"hourly_requests", "daily_requests", "total_requests">>)}
        \cup (IF RequestRaises(CurrentStore, chat_id) THEN {}
              ELSE {Point(RecordRequest(CurrentStore, chat_id, ChatTitle(chat_id)),
                          tracked_groups \cup {chat_id}, "join")})

\* bot.py:166-186: the points of a run of handle_chat_member_update for a departure:
\* after tracked_groups.add (166), after the creation of the chat's statistics (183)
\* and through the increments (184-186)
LeftPoints(chat_id) ==
    LET s0 == Store(get_or_create_channel_stats(channel_stats, chat_id, ChatTitle(chat_id)),
                    global_stats)
    IN  {Point(s, tracked_groups \cup {chat_id}, "left") :
            s \in {CurrentStore}
                  \cup UpdatePoints(s0, chat_id, <<"hourly_left", "daily_left", "total_left">>)}

\* bot.py:139-144: the point of a run of auto_approve_request after the approve call
\* returned and the entry was popped: inside update_channel_stats, between the chat's
\* counter and the global one
ApprovePoints(chat_id) ==
    {Point(ChatCounted(CurrentStore, chat_id, "total_approved"),
           tracked_groups, "none")}

\* bot.py:334-336, 389-391: the dictionaries of the chats while the loop of the reset
\* zeroes the two counters of each chat of 'order', one assignment after another
RECURSIVE ResetChatPoints(_, _, _)
ResetChatPoints(cs, order, kind) ==
    IF order = <<>> THEN {cs}
    ELSE LET req_done == [cs EXCEPT ![Head(order)] = Assign(@, WindowRequests(kind), 0)]
             both_done == [req_done EXCEPT ![Head(order)] = Assign(@, WindowLeft(kind), 0)]
         IN  {cs, req_done} \cup ResetChatPoints(both_done, Tail(order), kind)

\* bot.py:334-338, 389-393: the stores from the first assignment of the reset to its
\* last: the chats in the order of the dictionary, then the two global counters
ResetPoints(st, kind) ==
    LET done == ResetWindow(st, kind)
    IN  UNION {{Store(cs, st.global) : cs \in ResetChatPoints(st.channel, order, kind)} :
                  order \in Orders(DOMAIN st.channel)}
        \cup {Store(done.channel, Assign(st.global, WindowRequests(kind), 0)), done}

\* The points of the runs of a report job that reset the window: the run that begins
\* the job and finds no tracked chat (bot.py:400-402, then 333-338 or 388-393), and the
\* last round of a distribution, with the chat discarded (438) or kept, then the reset
ReportPoints(kind) ==
    IF ~reporting[kind].active
    THEN IF ~ReportRaises(channel_stats, kind) /\ ~NothingToReport(kind) /\ tracked_groups = {}
         THEN {Point(s, tracked_groups, "none") : s \in ResetPoints(CurrentStore, kind)}
         ELSE {}
    ELSE IF Cardinality(reporting[kind].todo) = 1
    THEN {Point(s, tg, "none") :
             s \in ResetPoints(CurrentStore, kind),
             tg \in {tracked_groups, tracked_groups \ reporting[kind].todo}}
    ELSE {}

\* The points at which a signal can find the main thread.  signal.signal (bot.py:
\* 624-625) makes the interpreter call signal_handler between two instructions of
\* whatever the main thread runs: between two runs or while every task is suspended
\* in an await (the store is the one the bot holds), or inside a run that is enabled:
\* a join request for a chat of 'join_chats', a departure from a chat of
\* 'left_chats', the return of an approve call, a reset of a report job of 'kinds'.
\* A run with one write that is saved has no point of its own.  Inside
\* save_stats_to_file, which writes no store, the handler's own save leaves one of the
\* files a save between two runs leaves.
SignalPoints(join_chats, left_chats, kinds) ==
    {Point(CurrentStore, tracked_groups, "none")}
    \cup (IF NoHandlerSuspended /\ clock < MaxRequests
          THEN UNION {JoinPoints(c) : c \in join_chats} ELSE {})
    \cup (IF NoHandlerSuspended /\ departures < MaxLeft
          THEN UNION {LeftPoints(c) : c \in left_chats} ELSE {})
    \cup UNION {ApprovePoints(p[2]) :
                  p \in {q \in Pairs : approving[q] > 0 /\ q[1] \in DOMAIN pending_requests}}
    \cup UNION {ReportPoints(kind) : kind \in kinds}

\* The process ends in one of the ways of ExitPaths, at the point 'point', and is
\* started again.  On the path of the signal, signal_handler saves the store of the
\* point (bot.py:619) and sys.exit (622) ends whatever run was under way; the event of
\* that run has been taken.  The step record holds the path, the outcome of the save
\* ("no_save": none was attempted), the event of the run that was under way, and the
\* store that was written (the empty store when none was).
ProcessExits(path, point, outcome, chat_order, group_order) ==
    /\ LET file == IF SavesAtExit(path)
                   THEN SavedFileOf(point.store, outcome, chat_order, group_order)
                   ELSE stats_file
       IN  /\ stats_file' = file
           /\ Rebuilt(file)
    /\ clock' = IF point.event = "join" THEN clock + 1 ELSE clock
    /\ departures' = IF point.event = "left" THEN departures + 1 ELSE departures
    /\ UNCHANGED <<displaced, abandoned>>
    /\ last' = Step("exit", "-", "-",
                    <<path,
                      IF SavesAtExit(path) THEN SaveResultOf(point.store, outcome)
                      ELSE "no_save",
                      point.event,
                      IF SavesAtExit(path) /\ SaveResultOf(point.store, outcome) = "saved"
                      THEN point.store ELSE FreshStore>>, 0, 0)

\* ------------------------------------------------------------ specification
\* The specifications that are not about the notification draw the join requests
\* whose notification was sent, and those that are not about the chat type the
\* membership changes of a supergroup: neither input is read by a branch that writes.
NotifySent == {"sent"}
OneChatType == {"supergroup"}

JoinRequestEvent(users, chats, notifications) ==
    \E u \in users, c \in chats, t \in ChatTypes, n \in notifications :
        handle_chat_join_request(u, c, t, n)

ApprovalTimerFires == \E u \in Users, c \in Chats : AutoApproveFire(u, c)

ApproveCallReturns == \E u \in Users, c \in Chats, ok \in BOOLEAN : AutoApproveReturn(u, c, ok)

MemberUpdateEvent(users, chats, types) ==
    \E u \in users, c \in chats, t \in types, change \in StatusChanges :
        handle_chat_member_update(u, c, t, change[1], change[2])

MembershipEvent(users, chats, types, changes) ==
    \E u \in users, c \in chats, t \in types, change \in changes :
        handle_chat_member_update(u, c, t, change[1], change[2])

WelcomeCallsReturn == \E out \in WelcomeOutcomes : WelcomeReturn(out)

DepartureEvent(users, chats) ==
    \E u \in users, c \in chats, t \in OneChatType,
       change \in {ch \in StatusChanges : HasLeft(ch[1], ch[2])} :
        handle_chat_member_update(u, c, t, change[1], change[2])

ReportKinds == {"hourly", "daily"}

ReportJobStarts(kinds) == \E kind \in kinds : ReportStart(kind)

ReportJobVisits(kinds, outcomes) ==
    \E kind \in kinds, c \in Chats, o \in outcomes : ReportVisit(kind, c, o)

\* The rounds that end in an error other than a refusal
VisitErrors == {v \in VisitOutcomes : v.chat = "error"}

StatsSaved ==
    \E outcome \in SaveOutcomes, co \in Orders(DOMAIN channel_stats),
       go \in Orders(tracked_groups) :
        save_stats_to_file(outcome, co, go)

FileChanges(kinds, tracked) ==
    \E file \in DamagedFiles(stats_file, kinds, tracked) : FileDamaged(file, kinds, tracked)

\* The join-request lifecycle: the two update handlers and the approval jobs, for
\* every user and chat.
Next ==
    \/ JoinRequestEvent(Users, Chats, NotifySent)
    \/ ApprovalTimerFires
    \/ ApproveCallReturns
    \/ MemberUpdateEvent(Users, Chats, OneChatType)
    \/ WelcomeCallsReturn

Spec == Init /\ [][Next]_vars

\* One user's requests for one chat and their approval, the departures, and the
\* report jobs.
JobsUsers == {"u1"}
JobsChats == {"c1"}

NextJobs ==
    \/ JoinRequestEvent(JobsUsers, JobsChats, NotifySent)
    \/ ApprovalTimerFires
    \/ ApproveCallReturns
    \/ DepartureEvent(JobsUsers, JobsChats)
    \/ ReportJobStarts(ReportKinds)
    \/ ReportJobVisits(ReportKinds, VisitOutcomes)

SpecJobs == Init /\ [][NextJobs]_vars

\* One report distribution over two chats: one user's join requests, the departures,
\* and the 8-hour report job with every outcome of its platform calls.
NextReports ==
    \/ JoinRequestEvent(JobsUsers, Chats, NotifySent)
    \/ DepartureEvent(JobsUsers, Chats)
    \/ ReportJobStarts({"daily"})
    \/ ReportJobVisits({"daily"}, VisitOutcomes)

SpecReports == Init /\ [][NextReports]_vars

\* The statistics of two chats: one user's join requests and their approval, the
\* departures from one of the chats, and the report jobs with their resets.
NextStats ==
    \/ JoinRequestEvent(JobsUsers, Chats, NotifySent)
    \/ ApprovalTimerFires
    \/ ApproveCallReturns
    \/ DepartureEvent(JobsUsers, JobsChats)
    \/ ReportJobStarts(ReportKinds)
    \/ ReportJobVisits(ReportKinds, VisitErrors)

SpecStats == Init /\ [][NextStats]_vars

\* The statistics file: one user's join requests and their approval, the departures,
\* the saves, what happens to the file outside the program, and restarts.
NextStore ==
    \/ JoinRequestEvent(JobsUsers, Chats, NotifySent)
    \/ ApprovalTimerFires
    \/ ApproveCallReturns
    \/ DepartureEvent(JobsUsers, Chats)
    \/ StatsSaved
    \/ FileChanges({"number"}, {"number"})
    \/ Restart

SpecStore == Init /\ [][NextStore]_vars

\* The kinds of value SpecDamage puts in a chat's place: line 478 treats a string
\* that holds the word as it treats a list that holds it, so one of the two is drawn
DamageKinds == {"number", "string", "list", "list_with_word"}

\* Damaged chat values: one user's join requests in both chats, the departures from
\* one, the saves, a chat's value in the file becoming one of DamageKinds, and
\* restarts.
NextDamage ==
    \/ JoinRequestEvent(JobsUsers, Chats, NotifySent)
    \/ DepartureEvent(JobsUsers, JobsChats)
    \/ StatsSaved
    \/ FileChanges(DamageKinds, {"number"})
    \/ Restart

SpecDamage == Init /\ [][NextDamage]_vars

\* Damaged values of 'tracked_groups' of every kind: one user's join requests and
\* departures in one chat, the saves, every kind of value 'tracked_groups' can have in
\* the file, and restarts.
NextTracked ==
    \/ JoinRequestEvent(JobsUsers, JobsChats, NotifySent)
    \/ DepartureEvent(JobsUsers, JobsChats)
    \/ StatsSaved
    \/ FileChanges({"number"}, TrackedKinds \ {"list"})
    \/ Restart

SpecTracked == Init /\ [][NextTracked]_vars

\* The process ends: by a signal at every point of the main thread, or by another
\* path, on which no handler is in the middle of a run
ProcessEnds(join_chats, left_chats, kinds) ==
    \E path \in ExitPaths, point \in SignalPoints(join_chats, left_chats, kinds) :
        /\ path # "signal" => point = Point(CurrentStore, tracked_groups, "none")
        /\ \E outcome \in SaveOutcomes, co \in Orders(DOMAIN point.store.channel),
              go \in Orders(point.store.tracked) :
               ProcessExits(path, point, outcome, co, go)

\* The end of the process: one user's join requests for one chat and their approval,
\* the departures, the periodic save, and every way out of run(), the signal at every
\* point of the runs of these handlers.
NextExit ==
    \/ JoinRequestEvent(JobsUsers, JobsChats, NotifySent)
    \/ ApprovalTimerFires
    \/ ApproveCallReturns
    \/ DepartureEvent(JobsUsers, JobsChats)
    \/ StatsSaved
    \/ ProcessEnds(JobsChats, JobsChats, {})

SpecExit == Init /\ [][NextExit]_vars

\* The end of the process while the report job runs: one user's join requests and
\* departures in one chat, the 8-hour report job, the periodic save, and every way out
\* of run(), the signal at every point of these runs, the resets among them.
NextSignal ==
    \/ JoinRequestEvent(JobsUsers, JobsChats, NotifySent)
    \/ DepartureEvent(JobsUsers, JobsChats)
    \/ ReportJobStarts({"daily"})
    \/ ReportJobVisits({"daily"}, VisitOutcomes)
    \/ StatsSaved
    \/ ProcessEnds(JobsChats, JobsChats, {"daily"})

SpecSignal == Init /\ [][NextSignal]_vars

FileLosesFields == \E file \in PartialFiles(stats_file) : FieldsLost(file)

\* Files that lack counter fields: one user's join requests and departures in one
\* chat, the daily report job, the saves, the file losing fields, and restarts.
NextLoad ==
    \/ JoinRequestEvent(JobsUsers, JobsChats, NotifySent)
    \/ DepartureEvent(JobsUsers, JobsChats)
    \/ ReportJobStarts({"daily"})
    \/ ReportJobVisits({"daily"}, VisitErrors)
    \/ StatsSaved
    \/ FileLosesFields
    \/ Restart

SpecLoad == Init /\ [][NextLoad]_vars

\* Membership updates of every kind: both users' join requests and approvals in one
\* chat, every change of status, and the welcome.
NextMembers ==
    \/ JoinRequestEvent(Users, JobsChats, NotifySent)
    \/ ApprovalTimerFires
    \/ ApproveCallReturns
    \/ MembershipEvent(Users, JobsChats, OneChatType, AllStatusChanges)
    \/ WelcomeCallsReturn

SpecMembers == Init /\ [][NextMembers]_vars

StatsCommandEvent ==
    \E u \in StatsUsers, m \in BOOLEAN, c \in Chats : StatsCommand(u, m, c)

StatsLookupEvent == \E o \in LookupOutcomes, c \in Chats : StatsLookupReturns(o, c)

\* The rounds in which the chat is found inaccessible, or in which another error ends
\* the round
VisitRefusals == {v \in VisitOutcomes : v.chat \in {"inaccessible", "error"}}

\* The command /stats: the chats become tracked by join requests and membership
\* changes, lose that by the 8-hour report job, and people send the command.
NextQuery ==
    \/ JoinRequestEvent(JobsUsers, Chats, NotifySent)
    \/ MemberUpdateEvent(JobsUsers, Chats, OneChatType)
    \/ ReportJobStarts({"daily"})
    \/ ReportJobVisits({"daily"}, VisitRefusals)
    \/ StatsCommandEvent
    \/ StatsLookupEvent

SpecQuery == Init /\ [][NextQuery]_vars

\* The inputs of the two update handlers: one user's join requests with every outcome
\* of the notification, their approval, and the membership changes in chats of every
\* type with the welcome.
NextEvents ==
    \/ JoinRequestEvent(JobsUsers, Chats, NotifyOutcomes)
    \/ ApprovalTimerFires
    \/ ApproveCallReturns
    \/ MemberUpdateEvent(JobsUsers, Chats, ChatTypes)
    \/ WelcomeCallsReturn

SpecEvents == Init /\ [][NextEvents]_vars

\* ------------------------------------------------------------------ claims
\* Steps, told by what the program's state and the step record show.
JoinHandled ==
    /\ last'.op = "join"
    /\ last'.arg[1] \in {"group", "supergroup", "channel"}

TimerFired == jobs # <<>> /\ jobs' = Tail(jobs)

ApproveReturned(outcome) == last'.op = "approve_return" /\ last'.arg = <<outcome>>

ApproveCalled == \E p \in Pairs : approving'[p] > approving[p]

WelcomeEnded == welcoming # Idle /\ welcoming' = Idle

MemberLeft ==
    /\ last'.op = "member_update"
    /\ last'.arg[1] \in {"member", "administrator"}
    /\ last'.arg[2] \in {"left", "kicked"}

LifetimeLeft(cs, chat_id) == IF chat_id \in DOMAIN cs THEN cs[chat_id].total_left ELSE 0

\* C1: in every reachable state, every chat's lifetime approved counter is at most its
\* lifetime requests counter (join requests, approval jobs succeeding or failing,
\* membership changes and the report jobs with their resets, from the empty store).
C1_ApprovedAtMostRequests ==
    \A c \in DOMAIN channel_stats :
        channel_stats[c].total_approved <= channel_stats[c].total_requests

\* C1 witness: both requests of a chat were approved, and both windows were reset since.
C1_Witness ==
    \E c \in DOMAIN channel_stats :
        /\ channel_stats[c].total_requests = 2
        /\ channel_stats[c].total_approved = 2
        /\ channel_stats[c].hourly_requests = 0
        /\ channel_stats[c].daily_requests = 0

\* C2, as claimed: when exactly two join requests have arrived and two approval
\* callbacks of one (user, chat) run, at most one of them calls the platform approve
\* operation: never are both inside the call.  (Two callbacks of one pair being in the
\* call with two requests recorded means both requests were of that pair and none had
\* been resolved when the second arrived.)
C2_AtMostOneApproveCall ==
    clock = 2 => \A p \in Pairs : approving[p] <= 1

\* C3: every counted approval is of a pending entry of its own: the approved counters
\* (the sum over the chats, and the global one) never exceed the join requests that
\* were neither overwritten while pending nor are still pending.  Two runs of the
\* approval callback over one entry, both succeeding, count once.
C3_ApprovedOncePerEntry ==
    /\ global_stats.total_approved + displaced + Cardinality(DOMAIN pending_requests) <= clock
    /\ ChannelSum(channel_stats, "total_approved") + displaced
           + Cardinality(DOMAIN pending_requests) <= clock

\* C3 witness: two requests of one (user, chat), the second overwriting the first; both
\* callbacks ran and both approve calls succeeded; the second to return found the
\* entry gone; one approval is counted.
C3_Witness ==
    /\ last.op = "approve_return" /\ last.arg = <<"ok">> /\ last.req = 0
    /\ clock = 2 /\ displaced = 1 /\ abandoned = {}
    /\ jobs = <<>> /\ \A p \in Pairs : approving[p] = 0
    /\ channel_stats[last.chat].total_requests = 2
    /\ channel_stats[last.chat].total_approved = 1
    /\ global_stats.total_approved = 1

\* C4, as claimed: at every moment a (user, chat) has at most one registered approval
\* timer that has not fired.
C4_AtMostOneTimer ==
    \A p \in Pairs : Registered(jobs, p[1], p[2]) <= 1

\* C4, amended: a join request of a supported chat type registers exactly one more
\* approval timer for its (user, chat), cancels none, and leaves the user pending
\* with that chat.
C4_OneMoreTimer ==
    [][JoinHandled =>
        /\ Len(jobs') = Len(jobs) + 1
        /\ SubSeq(jobs', 1, Len(jobs)) = jobs
        /\ Registered(jobs', last'.user, last'.chat)
               = Registered(jobs, last'.user, last'.chat) + 1
        /\ last'.user \in DOMAIN pending_requests'
        /\ pending_requests'[last'.user].chat_id = last'.chat]_vars

\* C4 witness: a join request was handled while the timer of an earlier request of the
\* same (user, chat) had not fired: two timers are registered for the pair.
C4_Witness ==
    /\ last.op = "join"
    /\ last.user \in DOMAIN pending_requests
    /\ Registered(jobs, last.user, last.chat) = 2

\* C5, as claimed: when a callback that found the request pending sees its approve
\* call succeed, then afterwards the user is in approved_users, is not pending, and
\* the chat's and the global lifetime approved counters are each one higher.
C5_ApprovalRecorded ==
    [][ApproveReturned("ok") =>
        /\ last'.user \in approved_users'
        /\ last'.user \notin DOMAIN pending_requests'
        /\ channel_stats'[last'.chat].total_approved
               = channel_stats[last'.chat].total_approved + 1
        /\ global_stats'.total_approved = global_stats.total_approved + 1]_vars

\* C6: when the approve call of a callback fails, the user's pending entry is removed
\* and no other; no counter and not approved_users changes; no job is registered and
\* no approve call is made by the step; and no later step calls approve for a request
\* that a failed approval discarded.
C6_FailureAbandons ==
    [][/\ ApproveReturned("error") =>
            /\ last'.user \notin DOMAIN pending_requests'
            /\ \A u \in DOMAIN pending_requests \ {last'.user} :
                   u \in DOMAIN pending_requests' /\ pending_requests'[u] = pending_requests[u]
            /\ approved_users' = approved_users
            /\ channel_stats' = channel_stats
            /\ global_stats' = global_stats
            /\ jobs' = jobs
            /\ ~ApproveCalled
       /\ ApproveCalled =>
            /\ last'.user \in DOMAIN pending_requests
            /\ pending_requests[last'.user].request_time \notin abandoned]_vars

\* C6 witness: an approve call failed while the user's request was pending; the entry
\* is gone and the request is recorded as abandoned.
C6_Witness ==
    /\ last.op = "approve_return" /\ last.arg = <<"error">>
    /\ last.req > 0
    /\ last.req \in abandoned
    /\ last.user \notin DOMAIN pending_requests

\* C7: when an approval timer fires and its user has no pending request, no approve
\* call is made and pending_requests, approved_users, tracked_groups and every counter
\* stay as they are.
C7_StaleTimerDoesNothing ==
    [][(TimerFired /\ Head(jobs)[1] \notin DOMAIN pending_requests) =>
        /\ approving' = approving
        /\ pending_requests' = pending_requests
        /\ approved_users' = approved_users
        /\ tracked_groups' = tracked_groups
        /\ channel_stats' = channel_stats
        /\ global_stats' = global_stats]_vars

\* C7 witness: a timer fired for a user who had requested and was no longer pending.
C7_Witness ==
    /\ last.op = "approve_fire"
    /\ last.req = 0
    /\ last.chat \in DOMAIN channel_stats
    /\ channel_stats[last.chat].total_requests >= 1
    /\ \A p \in Pairs : approving[p] = 0

\* C8, as claimed: requests are keyed by (user, chat), so the timer of the only request
\* ever made for a chat finds that request pending, whatever the user's requests for
\* other chats and their timers did: it does not return without an approve call.
C8_RequestsPerChatIndependent ==
    ~(/\ last.op = "approve_fire"
      /\ last.req = 0
      /\ last.chat \in DOMAIN channel_stats
      /\ channel_stats[last.chat].total_requests = 1)

\* C9, as claimed: the welcome entered on the membership change of a user in
\* approved_users to member, administrator or owner sends exactly one message whenever
\* the platform accepts the formatted send, or after its refusal the plain one, and
\* always removes the user from approved_users, so that a repeat of the event finds the
\* user absent and sends nothing.
C9_ExactlyOneWelcome ==
    [][WelcomeEnded =>
        LET member == last'.arg[1]
            rich == last'.arg[2]
            plain == last'.arg[3]
            accepted == /\ member = "can_send"
                        /\ rich = "ok" \/ (rich = "denied" /\ plain = "ok")
        IN  /\ accepted => last'.sent = 1
            /\ last'.sent <= 1
            /\ welcoming.user \notin approved_users']_vars

\* C10: a membership change from member or administrator to left or kicked increments
\* the chat's and the global lifetime departure counters by one each and leaves
\* pending_requests and approved_users as they are, whoever the user is.
C10_DepartureCounted ==
    [][MemberLeft =>
        /\ last'.chat \in DOMAIN channel_stats'
        /\ channel_stats'[last'.chat].total_left = LifetimeLeft(channel_stats, last'.chat) + 1
        /\ \A c \in DOMAIN channel_stats \ {last'.chat} :
               channel_stats'[c].total_left = channel_stats[c].total_left
        /\ global_stats'.total_left = global_stats.total_left + 1
        /\ pending_requests' = pending_requests
        /\ approved_users' = approved_users]_vars

\* C10 witness: the departure of a user who is both pending and in approved_users was
\* counted.
C10_Witness ==
    /\ last.op = "member_update"
    /\ last.arg[1] \in {"member", "administrator"}
    /\ last.arg[2] \in {"left", "kicked"}
    /\ last.user \in DOMAIN pending_requests
    /\ last.user \in approved_users
    /\ channel_stats[last.chat].total_left = 1
    /\ global_stats.total_left = 1

\* A report job zeroed its window: with no chat tracked, or as its last round ended
WindowReset(kind) ==
    \/ last'.op = "report_reset" /\ last'.chat = kind
    \/ last'.op = "report_visit" /\ last'.arg[1] = kind /\ last'.arg[5] = "returned"

\* The last step was a report job zeroing its window
JustReset(kind) ==
    \/ last.op = "report_reset" /\ last.chat = kind
    \/ last.op = "report_visit" /\ last.arg[1] = kind /\ last.arg[5] = "returned"

WindowCounters(kind) ==
    IF kind = "hourly" THEN {"hourly_requests", "hourly_left"}
    ELSE {"daily_requests", "daily_left"}

\* C11, as claimed: in every reachable state every chat with statistics is in
\* tracked_groups, also after a report distribution met an inaccessible chat.
C11_StatsChatsTracked ==
    DOMAIN channel_stats \subseteq tracked_groups

\* C12: in every reachable state each of the seven global counters equals the sum of
\* the chats' counters of the same name (join requests for two chats, approvals,
\* departures, and both report jobs with their resets, interleaved, from the empty
\* store).
C12_GlobalIsSumOfChats ==
    \A key \in Counters : global_stats[key] = ChannelSum(channel_stats, key)

\* C12 witness: two chats have statistics, an approval was counted, and the hourly
\* window has just been zeroed while the 8-hour window still counts both requests.
C12_Witness ==
    /\ JustReset("hourly")
    /\ Cardinality(DOMAIN channel_stats) = 2
    /\ global_stats.total_requests = 2
    /\ global_stats.total_approved = 1
    /\ global_stats.daily_requests = 2
    /\ global_stats.hourly_requests = 0

\* C13: the reset of a report job zeroes the two counters of its own window, for every
\* chat and globally, and changes no other counter: not the lifetime counters, not
\* the other window's; it adds and removes no chat.
C13_ResetOwnWindowOnly ==
    [][\A kind \in {"hourly", "daily"} : WindowReset(kind) =>
        /\ DOMAIN channel_stats' = DOMAIN channel_stats
        /\ \A c \in DOMAIN channel_stats :
               /\ channel_stats'[c].title = channel_stats[c].title
               /\ \A key \in Counters :
                      channel_stats'[c][key] =
                          IF key \in WindowCounters(kind) THEN 0 ELSE channel_stats[c][key]
        /\ \A key \in Counters :
               global_stats'[key] =
                   IF key \in WindowCounters(kind) THEN 0 ELSE global_stats[key]]_vars

\* C13 witness: the 8-hour window has just been zeroed while the hourly window and the
\* lifetime counters of a chat still count a request and a departure.
C13_Witness ==
    /\ JustReset("daily")
    /\ \E c \in DOMAIN channel_stats :
           /\ channel_stats[c].hourly_requests > 0
           /\ channel_stats[c].hourly_left > 0
           /\ channel_stats[c].total_requests > 0
           /\ channel_stats[c].total_left > 0
           /\ channel_stats[c].daily_requests = 0
           /\ channel_stats[c].daily_left = 0

\* The bot's store as load_stats_from_file sees it
StoreNow == [channel |-> channel_stats, global |-> global_stats, tracked |-> tracked_groups]

\* The file is what a successful save of the present store writes
FileIsSnapshot ==
    \E co \in Orders(DOMAIN channel_stats), go \in Orders(tracked_groups) :
        stats_file = FileImage(channel_stats, global_stats, tracked_groups, co, go)

\* C14: loading the file a successful save has just written into a fresh store gives
\* the saved store: the same chats with the same title and counters, the same global
\* counters and the same tracked_groups; and a restart that finds the file a save of
\* the present store wrote constructs a bot with that store.
C14_SaveLoadRoundTrip ==
    [][/\ (last'.op = "save" /\ last'.arg = <<"saved">>) =>
            LoadStats(stats_file', FreshStore) = StoreNow
       /\ (last'.op = "restart" /\ FileIsSnapshot) =>
            /\ channel_stats' = channel_stats
            /\ global_stats' = global_stats
            /\ tracked_groups' = tracked_groups]_vars

\* C14 witness: a bot was constructed from a saved file and holds the statistics of
\* two tracked chats, with a request, an approval and a departure counted.
C14_Witness ==
    /\ last.op = "restart"
    /\ stats_file.kind = "json"
    /\ LoadStats(stats_file, FreshStore) = StoreNow
    /\ Cardinality(tracked_groups) = 2
    /\ Cardinality(DOMAIN channel_stats) = 2
    /\ global_stats.total_requests = 2
    /\ global_stats.total_approved = 1
    /\ global_stats.total_left = 1

\* C20, as claimed: when load_stats_from_file fails at any point, the constructed
\* bot's store is empty: no chat statistics, no tracked chat, every global counter
\* zero.
C20_FailedLoadLeavesStoreEmpty ==
    [][(last'.op = "restart" /\ LoadRaises(stats_file)) =>
        /\ channel_stats' = EmptyDict
        /\ tracked_groups' = {}
        /\ global_stats' = NewGlobalStats]_vars

\* A report job begins (the step of ReportStart)
JobRuns(kind) ==
    /\ ~reporting[kind].active
    /\ last'.op \in {"report_none", "report_start", "report_reset"}
    /\ last'.chat = kind

\* One chat's round of a distribution
Visited(kind) == last'.op = "report_visit" /\ last'.arg[1] = kind

\* C15: when the hourly job runs and the hourly request and departure counters of
\* every chat are zero, it returns without entering the distribution and changes
\* nothing; and no round of an hourly distribution makes a send when the hourly
\* window was all zero as the job began.
C15_QuietHourSendsNothing ==
    [][/\ (JobRuns("hourly") /\ WindowQuiet(channel_stats, "hourly")) =>
            /\ last'.op = "report_none"
            /\ last'.sent = 0
            /\ reporting' = reporting
            /\ channel_stats' = channel_stats
            /\ global_stats' = global_stats
            /\ tracked_groups' = tracked_groups
       /\ (Visited("hourly") /\ last'.arg[3] # {}) => ~reporting["hourly"].quiet]_vars

\* C15 witness: the hourly job ran and returned at once, while a chat with recorded
\* requests was tracked and would have been reported to.
C15_Witness ==
    /\ last.op = "report_none" /\ last.chat = "hourly"
    /\ tracked_groups # {}
    /\ global_stats.total_requests > 0
    /\ ~reporting["hourly"].active

\* C16, as claimed: no round of an 8-hour distribution makes a send to an
\* administrator when the 8-hour request and departure counters of every chat were
\* zero as the job began.
C16_QuietPeriodSendsNothing ==
    [][(Visited("daily") /\ last'.arg[3] # {}) => ~reporting["daily"].quiet]_vars

\* C17: in one distribution no send is made to an administrator to whom a send of
\* that distribution succeeded, so each administrator has got exactly one message if
\* a send to them succeeded and none otherwise, however many chats they administer.
C17_OneReportPerAdmin ==
    [][\A kind \in {"hourly", "daily"} : Visited(kind) =>
        /\ last'.arg[3] \cap reporting[kind].sent = {}
        /\ \A a \in Admins :
               reporting[kind].got[a] + (IF a \in last'.arg[4] THEN 1 ELSE 0)
                   = IF a \in reporting[kind].sent \cup last'.arg[4] THEN 1 ELSE 0
        /\ last'.arg[5] = "goes_on" =>
               /\ reporting'[kind].sent = reporting[kind].sent \cup last'.arg[4]
               /\ \A a \in Admins :
                      reporting'[kind].got[a] =
                          IF a \in reporting'[kind].sent THEN 1 ELSE 0]_vars

\* C17 witness: the distribution has visited both chats; the last round fetched the
\* administrators of its chat and made a send to another administrator but none to
\* a1, who administers both chats and had got the message in the other chat's round.
C17_Witness ==
    /\ last.op = "report_visit" /\ last.arg[2] = "admins"
    /\ "a1" \in ChatAdmins(last.chat)
    /\ "a1" \notin last.arg[3]
    /\ last.arg[3] # {}
    /\ last.arg[5] = "returned"
    /\ Cardinality(tracked_groups) = 2

\* C18: a round that fetched the administrators makes a send to every administrator
\* of the chat that is no bot and has not got the message yet, whatever the outcomes
\* of the sends, and the distribution goes on with the chats not yet visited.
C18_FailedSendDoesNotStop ==
    [][\A kind \in {"hourly", "daily"} : (Visited(kind) /\ last'.arg[2] = "admins") =>
        /\ last'.arg[3] = (ChatAdmins(last'.chat) \ Bots) \ reporting[kind].sent
        /\ IF reporting[kind].todo = {last'.chat}
           THEN last'.arg[5] = "returned"
           ELSE /\ last'.arg[5] = "goes_on"
                /\ reporting'[kind].active
                /\ reporting'[kind].todo = reporting[kind].todo \ {last'.chat}]_vars

\* C18 witness: in the round of the chat with two administrators a send was made to
\* both and one of the two failed; the other chat is still to be visited.
C18_Witness ==
    /\ last.op = "report_visit" /\ last.arg[2] = "admins"
    /\ last.arg[3] = {"a1", "a2"}
    /\ last.sent = 1
    /\ reporting[last.arg[1]].active
    /\ reporting[last.arg[1]].todo # {}

\* C19, as claimed: a chat leaves tracked_groups exactly when a platform call of its
\* round of a distribution is refused (BadRequest or Forbidden): only then, and
\* always then.
C19_RemovedExactlyWhenRefused ==
    [][/\ \A c \in tracked_groups \ tracked_groups' :
              /\ last'.op = "report_visit" /\ last'.chat = c
              /\ last'.arg[2] \in {"inaccessible", "member_denied"}
       /\ (last'.op = "report_visit" /\ last'.arg[2] \in {"inaccessible", "member_denied"}) =>
              last'.chat \notin tracked_groups']_vars

\* C19, amended: a chat leaves tracked_groups only in its round of a distribution, when
\* get_chat or get_chat_administrators is refused, and always then; the refusal of
\* get_chat_member for a channel, another error, and a round that skips the chat or
\* sends to its administrators leave tracked_groups as it is.
C19_RemovedWhenChatRefused ==
    [][/\ \A c \in tracked_groups \ tracked_groups' :
              /\ last'.op = "report_visit" /\ last'.chat = c
              /\ last'.arg[2] = "inaccessible"
       /\ (last'.op = "report_visit" /\ last'.arg[2] = "inaccessible") =>
              tracked_groups' = tracked_groups \ {last'.chat}
       /\ (last'.op = "report_visit" /\ last'.arg[2] # "inaccessible") =>
              tracked_groups' = tracked_groups]_vars

\* C19 witness: a round was refused by get_chat or get_chat_administrators and its
\* chat, which had been tracked since a join request, is tracked no more.
C19_Witness ==
    /\ last.op = "report_visit" /\ last.arg[2] = "inaccessible"
    /\ last.chat \notin tracked_groups
    /\ last.chat \in DOMAIN channel_stats
    /\ channel_stats[last.chat].total_requests > 0

\* The value a counter of a chat has, 0 for a chat without statistics
CounterOf(cs, chat_id, key) == IF chat_id \in DOMAIN cs THEN cs[chat_id][key] ELSE 0

\* C22: a join request for a chat that is no group, supergroup or channel creates no
\* state: pending_requests, the registered approval jobs, channel_stats, global_stats,
\* tracked_groups and approved_users stay as they are, and no approve call is made.
C22_UnsupportedJoinCreatesNothing ==
    [][(last'.op = "join" /\ last'.arg[1] \notin {"group", "supergroup", "channel"}) =>
        /\ pending_requests' = pending_requests
        /\ jobs' = jobs
        /\ channel_stats' = channel_stats
        /\ global_stats' = global_stats
        /\ tracked_groups' = tracked_groups
        /\ approved_users' = approved_users
        /\ approving' = approving]_vars

\* C22 witness: a join request for a private chat was handled after a request of
\* another chat had been recorded; its user is not pending and its chat has no
\* statistics and is not tracked.
C22_Witness ==
    /\ last.op = "join" /\ last.arg[1] = "private"
    /\ tracked_groups # {}
    /\ last.chat \notin tracked_groups
    /\ last.chat \notin DOMAIN channel_stats
    /\ last.user \notin DOMAIN pending_requests
    /\ \A i \in 1..Len(jobs) : jobs[i] # <<last.user, last.chat>>

\* C30: a join request for a group, supergroup or channel leaves the chat with
\* statistics whose hourly, 8-hour and lifetime request counters are one higher than
\* before (than zero for a chat that had none), raises the three global request
\* counters by one each, and changes no other counter of this chat, no counter of
\* another chat and no other global counter.
C30_JoinCountsRequestOnce ==
    [][JoinHandled =>
        LET requests == {"hourly_requests", "daily_requests", "total_requests"}
        IN  /\ DOMAIN channel_stats' = DOMAIN channel_stats \cup {last'.chat}
            /\ \A key \in Counters :
                   /\ channel_stats'[last'.chat][key] =
                          CounterOf(channel_stats, last'.chat, key)
                              + (IF key \in requests THEN 1 ELSE 0)
                   /\ global_stats'[key] =
                          global_stats[key] + (IF key \in requests THEN 1 ELSE 0)
            /\ \A c \in DOMAIN channel_stats \ {last'.chat} :
                   channel_stats'[c] = channel_stats[c]]_vars

\* C30 witness: the second join request of a chat was handled after an approval and a
\* departure had been counted for it: its request counters are 2, the others 1.
C30_Witness ==
    /\ last.op = "join" /\ last.arg[1] \in {"group", "supergroup", "channel"}
    /\ channel_stats[last.chat].total_requests = 2
    /\ channel_stats[last.chat].hourly_requests = 2
    /\ channel_stats[last.chat].total_approved = 1
    /\ channel_stats[last.chat].total_left = 1
    /\ global_stats.total_requests = 2

\* C29, as claimed: whenever the formatted send of the welcome fails, for whatever
\* reason, the plain send is made before send_welcome_message is left.
C29_PlainSendAfterFailedRich ==
    [][(WelcomeEnded /\ last'.arg[1] = "can_send" /\ last'.arg[2] # "ok") =>
        /\ WelcomePlainTried([member |-> last'.arg[1], rich |-> last'.arg[2],
                              plain |-> last'.arg[3]])
        /\ last'.arg[3] = "ok" => last'.sent = 1]_vars

\* C27, as claimed: a welcome message is delivered in a chat for a user only when
\* the bot's approve call had approved that user's request for that same chat and no
\* welcome was delivered for it since.
C27_WelcomeOnlyWhereApproved ==
    [][(WelcomeEnded /\ last'.sent > 0) =>
        <<welcoming.user, welcoming.chat>> \in approvals]_vars

\* C26, as claimed: what the reset after a distribution erases is what the report
\* showed: as the window is zeroed, its request and departure counters summed over the
\* chats are the figures the job read for its message, so no recorded event is erased
\* unreported.
C26_ResetErasesOnlyReported ==
    [][\A kind \in {"hourly", "daily"} : (WindowReset(kind) /\ reporting[kind].active) =>
        /\ ChannelSum(channel_stats, WindowRequests(kind)) = reporting[kind].requests
        /\ ChannelSum(channel_stats, WindowLeft(kind)) = reporting[kind].left]_vars

\* C23: when the notification of the administrators fails during a join request (the
\* administrator list cannot be fetched, or a send to an administrator raises), the
\* handler returns without an exception and leaves the user pending with the chat,
\* one more approval job registered for the pair, and the chat's and the global
\* request counters one higher each.
C23_FailedNotificationKeepsRequest ==
    [][(JoinHandled /\ last'.arg[2] \in {"send_failed", "admins_failed"}) =>
        /\ last'.arg[3] = "returned"
        /\ last'.user \in DOMAIN pending_requests'
        /\ pending_requests'[last'.user].chat_id = last'.chat
        /\ Registered(jobs', last'.user, last'.chat)
               = Registered(jobs, last'.user, last'.chat) + 1
        /\ \A key \in {"hourly_requests", "daily_requests", "total_requests"} :
               /\ channel_stats'[last'.chat][key] = CounterOf(channel_stats, last'.chat, key) + 1
               /\ global_stats'[key] = global_stats[key] + 1]_vars

\* C23 witness: the join request whose notification could not fetch the administrators
\* is pending with its approval job registered and counted.
C23_Witness ==
    /\ last.op = "join" /\ last.arg[2] = "admins_failed" /\ last.arg[3] = "returned"
    /\ last.user \in DOMAIN pending_requests
    /\ pending_requests[last.user].chat_id = last.chat
    /\ Registered(jobs, last.user, last.chat) = 1
    /\ channel_stats[last.chat].total_requests = 1

\* C28, as claimed: a membership change in a chat that is no group, supergroup or
\* channel is ignored: tracked_groups and every counter stay as they are and no
\* welcome is begun.
C28_UnsupportedMemberUpdateIgnored ==
    [][(last'.op = "member_update" /\ last'.arg[3] \notin {"group", "supergroup", "channel"}) =>
        /\ tracked_groups' = tracked_groups
        /\ channel_stats' = channel_stats
        /\ global_stats' = global_stats
        /\ welcoming' = welcoming]_vars

\* The handler of /stats ended (a command without a message asks nothing)
StatsEnded == last'.op = "stats_end" /\ last'.arg[1] # "no_message"

\* The chats tracked as the command arrived
TrackedAtCommand == IF querying.active THEN querying.tracked ELSE tracked_groups

\* C24, as claimed: the command is answered with the statistics only when its sender
\* is a non-bot administrator of a chat that was tracked as the command arrived, and
\* in every other case, also with no tracked chat or with every lookup failing, it is
\* answered with the denial.
C24_ReportToAdminsElseDenial ==
    [][StatsEnded =>
        LET answered == last'.arg[1] \in {"report", "empty"}
        IN  /\ answered =>
                \E c \in TrackedAtCommand : last'.user \in ChatAdmins(c) \ Bots
            /\ ~answered => last'.arg[1] = "denied"]_vars

\* C25, as claimed: on every way out of the running process, by a signal or not, a
\* save of the statistics is attempted before the process is gone; and when that save
\* succeeds the file holds the store the process had when it ended.
C25_SaveAttemptedOnEveryExit ==
    [][last'.op = "exit" =>
        /\ last'.arg[2] # "no_save"
        /\ last'.arg[2] = "saved" => LoadStats(stats_file', FreshStore) = last'.arg[4]]_vars

\* A chat's statistics as the file has them, with zero for every counter it lacks
WithDefaults(stats) ==
    [k \in DOMAIN stats \cup Counters |-> IF k \in DOMAIN stats THEN stats[k] ELSE 0]

\* C21, as claimed: a load that meets no error gives every chat of the file its
\* statistics with zero for the counter fields the file lacks, and the same for the
\* global counters; and no later join request, departure or report job ends in an
\* exception.
C21_MissingFieldsDefaulted ==
    [][/\ (last'.op = "restart" /\ stats_file.kind = "json" /\ ~LoadRaises(stats_file)) =>
            /\ global_stats' = WithDefaults(stats_file.global_stats)
            /\ \A i \in 1..Len(stats_file.channel_stats) :
                   channel_stats'[stats_file.channel_stats[i].chat]
                       = WithDefaults(stats_file.channel_stats[i].stats)
       /\ last'.op \in {"join", "member_update", "report_raised"} =>
            \A i \in 1..Len(last'.arg) : last'.arg[i] # "raised"]_vars

\* A membership update to member, administrator or owner was handled for a user who
\* was not in approved_users
UnapprovedArrival ==
    /\ last'.op = "member_update"
    /\ last'.arg[2] \in {"member", "administrator", "creator"}
    /\ last'.user \notin approved_users

\* C31: a membership update to member, administrator or owner for a user who is not in
\* approved_users starts no welcome and sends no message, and leaves the chats' and the
\* global counters, pending_requests and approved_users as they are.
C31_UnapprovedArrivalDoesNothing ==
    [][UnapprovedArrival =>
        /\ welcoming' = Idle
        /\ last'.sent = 0
        /\ channel_stats' = channel_stats
        /\ global_stats' = global_stats
        /\ pending_requests' = pending_requests
        /\ approved_users' = approved_users]_vars

\* An update from left to member was handled for a user who is not in approved_users
\* while another user is, in a chat with counted requests: no welcome is under way.
C31_Witness ==
    /\ last.op = "member_update"
    /\ BecameMember(last.arg[1], last.arg[2])
    /\ last.user \notin approved_users
    /\ approved_users # {}
    /\ last.chat \in DOMAIN channel_stats
    /\ welcoming = Idle

====
